---------------------------- MODULE Spec2Model ----------------------------
(***************************************************************************)
(* A model of parse_arrl_pool.py: the text clean-up (cleanup_text), the    *)
(* question extractor (QA_RE, Question, parse_questions), the presentation *)
(* of a question (Question.generate_question) and the interactive quiz     *)
(* with its driver (ask_questions, main).                                  *)
(*                                                                         *)
(* Text is a sequence of characters, each character a one-element string;  *)
(* a non-ASCII code point is one element with a symbolic name ("NBSP").    *)
(* Indices into Python strings are 0-based in the source and are kept      *)
(* 0-based in search_index; TLA+ sequences are 1-based.                    *)
(***************************************************************************)
EXTENDS Naturals, Integers, Sequences, FiniteSets, TLC

VARIABLES
    pc,             \* position of the modelled run
    \* ---- cleanup_text
    c_text,         \* the text passed to cleanup_text
    c_index,        \* search_index when the loop of cleanup_text ends
    c_out,          \* what cleanup_text returned
    c_out2,         \* what cleanup_text returned for c_out
    \* ---- parse_questions
    p_text,         \* the text passed to parse_questions
    include_strs,   \* None or a list of patterns
    exclude_strs,   \* None or a list of patterns
    p_result,       \* [questions, error] of the call
    rt_question,    \* the Question written out and read back
    rt_result,      \* [questions, error] of parsing str(rt_question)
    \* ---- Question.generate_question
    g_question,     \* self
    g_shuffle,      \* shuffle_abcd
    g_result,       \* [correct, text, choices]: the tuple returned, the choices dict
    g_before,       \* self as it was when generate_question was called
    \* ---- main / ask_questions
    args_ask,       \* args.ask_questions
    args_shuffle,   \* args.shuffle_abcd
    args_verbose,   \* args.verbose
    rows, cols,     \* stdscr.getmaxyx()
    questions,      \* the dict main owns, as the sequence of its values
    q_numbers,      \* the permutation sampled at the start of the session
    q_pos,          \* index into q_numbers of the for loop
    q_correct, q_incorrect, q_skipped,
    correct_answer, \* letter returned by generate_question
    their_answer,   \* last key read, upper-cased
    output_file,    \* what main printed to args.output_file
    stderr,         \* what main printed to sys.stderr
    exit_status,    \* what main returned
    \* ---- history of the run (not program state)
    h_initial,      \* questions as parse_questions returned it
    h_request,      \* <<ask, shuffle>> flags as given on the command line
    h_right,        \* numbers answered with the letter generate_question returned
    h_resolved,     \* numbers resolved by a right, wrong or skip key
    h_presented     \* how many questions were presented

cleanVars == <<c_text, c_index, c_out, c_out2>>
parseVars == <<p_text, include_strs, exclude_strs, p_result, rt_question, rt_result>>
genVars   == <<g_question, g_shuffle, g_result, g_before>>
quizVars  == <<args_ask, args_shuffle, args_verbose, rows, cols, questions, q_numbers, q_pos,
               q_correct, q_incorrect, q_skipped, correct_answer,
               their_answer, output_file, stderr, exit_status,
               h_initial, h_request, h_right, h_resolved, h_presented>>
vars == <<pc, cleanVars, parseVars, genVars, quizVars>>

\* An optional list (None or a list), as argparse leaves args.include
NoneList == [none |-> TRUE, list |-> <<>>]
SomeList(l) == [none |-> FALSE, list |-> l]
\* bool(x) of Python for an optional list
Truthy(x) == ~x.none /\ x.list # <<>>

NoQuestion == [question_number |-> <<>>, answer |-> "", regulation |-> <<>>,
               question |-> <<>>, choices |-> [l \in {"A", "B", "C", "D"} |-> <<>>]]
NoResult == [questions |-> <<>>, error |-> "", key |-> <<>>]
NoChoices == [l \in {"A", "B", "C", "D"} |-> <<>>]
NoGenerated == [correct |-> "", text |-> <<>>, choices |-> NoChoices]

(***************************************************************************)
(* Strings                                                                 *)
(***************************************************************************)
Min(S) == CHOOSE x \in S : \A y \in S : x <= y
Max(S) == CHOOSE x \in S : \A y \in S : x >= y

RECURSIVE Concat(_)
Concat(ss) == IF ss = <<>> THEN <<>> ELSE Head(ss) \o Concat(Tail(ss))

\* s[i:] of Python, i 0-based
From(s, i) == SubSeq(s, i + 1, Len(s))

Digits == {"0", "1", "2", "3", "4", "5", "6", "7", "8", "9"}
UpperLetters == {"A", "B", "C", "D", "E", "G", "L", "T", "X"}
LowerLetters == {"a", "b", "c", "d", "e", "l", "o", "q", "r", "t", "x"}
Letters == UpperLetters \cup LowerLetters
\* what \s matches in the ASCII text unidecode returns
Whitespace == {" ", "\n", "\t"}

\* Bounds: the texts of the clean-up runs are at most MaxChunks chunks long
MaxChunks == 5

(***************************************************************************)
(* cleanup_text                                                            *)
(***************************************************************************)
\* FIRST_QUESTION_RE = '[TGE]1A01 ' matches at 0-based position i of s
FirstQuestionAt(s, i) ==
    /\ i + 6 <= Len(s)
    /\ s[i + 1] \in {"T", "G", "E"}
    /\ SubSeq(s, i + 2, i + 6) = <<"1", "A", "0", "1", " ">>

\* FIRST_QUESTION_RE.search(s): the start of the leftmost match, or -1 for
\* no match object
FirstQuestionSearch(s) ==
    LET hits == {i \in 0..Len(s) : FirstQuestionAt(s, i)}
    IN  IF hits = {} THEN -1 ELSE Min(hits)

\* A single search instead of the loop
SearchLoopOnce(s, search_index) ==
    LET match_start == FirstQuestionSearch(From(s, search_index + 1))
    IN  IF match_start = -1 THEN search_index
        ELSE search_index + match_start + 1

\* the while loop of cleanup_text, entered with search_index
RECURSIVE SearchLoop(_, _)
SearchLoop(s, search_index) ==
    LET match_start == FirstQuestionSearch(From(s, search_index + 1))
    IN  IF match_start = -1 THEN search_index
        ELSE SearchLoop(s, search_index + match_start + 1)

\* unidecode of one code point
UnidecodeChar(c) ==
    CASE c = "NBSP"   -> <<" ">>
      [] c = "ENDASH" -> <<"-">>
      [] OTHER        -> <<c>>

\* unidecode(s)
Unidecode(s) == Concat([i \in 1..Len(s) |-> UnidecodeChar(s[i])])

\* first position >= i (1-based) of s that holds no whitespace
RECURSIVE SkipSpace(_, _)
SkipSpace(s, i) ==
    IF i <= Len(s) /\ s[i] \in Whitespace THEN SkipSpace(s, i + 1) ELSE i

\* EXTRA_SPACE_RE = '([0-9a-z]-)\s+([a-z])', IGNORECASE, matches at 1-based
\* position i of s: the position of the letter that ends the match, or 0
ExtraSpaceAt(s, i) ==
    IF /\ i + 3 <= Len(s)
       /\ s[i] \in Digits \cup Letters
       /\ s[i + 1] = "-"
       /\ s[i + 2] \in Whitespace
    THEN LET j == SkipSpace(s, i + 2)
         IN  IF j <= Len(s) /\ s[j] \in Letters THEN j ELSE 0
    ELSE 0

\* EXTRA_SPACE_RE.sub(r'\1\2', s) from 1-based position i on: the matches are
\* found left to right and do not overlap
RECURSIVE ExtraSpaceSub(_, _)
ExtraSpaceSub(s, i) ==
    IF i > Len(s) THEN <<>>
    ELSE LET j == ExtraSpaceAt(s, i)
         IN  IF j = 0 THEN <<s[i]>> \o ExtraSpaceSub(s, i + 1)
             ELSE <<s[i], "-", s[j]>> \o ExtraSpaceSub(s, j + 1)

cleanup_text(s) == ExtraSpaceSub(Unidecode(From(s, SearchLoop(s, 0))), 1)

\* The pieces the texts of the clean-up runs are made of
CleanChunks ==
    { <<"T", "1", "A", "0", "1", " ">>,
      <<"E", "1", "A", "0", "1">>,
      <<"a", "-">>,
      <<" ">>,
      <<"\n">>,
      <<"b">>,
      <<"NBSP">>,
      <<"ENDASH">> }

RECURSIVE ChunkTexts(_)
ChunkTexts(n) ==
    IF n = 0 THEN {<<>>}
    ELSE LET shorter == ChunkTexts(n - 1)
         IN  shorter \cup {c \o t : c \in CleanChunks, t \in shorter}

IdleClean == c_text = <<>> /\ c_index = 0 /\ c_out = <<>> /\ c_out2 = <<>>

IdleParse ==
    /\ p_text = <<>> /\ include_strs = NoneList /\ exclude_strs = NoneList
    /\ p_result = NoResult /\ rt_question = NoQuestion /\ rt_result = NoResult

IdleGen ==
    /\ g_question = NoQuestion /\ g_shuffle = FALSE
    /\ g_result = NoGenerated /\ g_before = NoQuestion

IdleQuiz ==
    /\ args_ask = FALSE /\ args_shuffle = FALSE /\ args_verbose = FALSE
    /\ rows = 0 /\ cols = 0
    /\ questions = <<>> /\ q_numbers = <<>> /\ q_pos = 0
    /\ q_correct = 0 /\ q_incorrect = 0 /\ q_skipped = 0
    /\ correct_answer = "" /\ their_answer = ""
    /\ output_file = <<>> /\ stderr = <<>> /\ exit_status = -1
    /\ h_initial = <<>> /\ h_request = <<FALSE, FALSE>> /\ h_right = {}
    /\ h_resolved = {} /\ h_presented = 0

InitClean ==
    /\ pc = "clean"
    /\ c_text \in ChunkTexts(MaxChunks)
    /\ c_index = 0 /\ c_out = <<>> /\ c_out2 = <<>>
    /\ IdleParse /\ IdleGen /\ IdleQuiz

\* cleanup_text(c_text), as get_text_from_file calls it on a file's text
CleanupText ==
    /\ pc = "clean"
    /\ c_index' = SearchLoop(c_text, 0)
    /\ c_out' = cleanup_text(c_text)
    /\ pc' = "cleaned"
    /\ UNCHANGED <<c_text, c_out2, parseVars, genVars, quizVars>>

\* cleanup_text applied to what it returned
CleanupAgain ==
    /\ pc = "cleaned"
    /\ c_out2' = cleanup_text(c_out)
    /\ pc' = "recleaned"
    /\ UNCHANGED <<c_text, c_index, c_out, parseVars, genVars, quizVars>>

NextClean == CleanupText \/ CleanupAgain

SpecClean == InitClean /\ [][NextClean]_vars

(***************************************************************************)
(* Claims about cleanup_text                                               *)
(***************************************************************************)
\* 0-based positions other than the first character where a marker starts
MarkerPositions(s) == {i \in 1..Len(s) : FirstQuestionAt(s, i)}

Cleaned == pc \in {"cleaned", "recleaned"}

\* C8 (as amended): the text kept by cleanup_text starts at the LAST
\* occurrence of the marker '[TGE]1A01 ' that is not at the very first
\* character, everything before it is discarded, and with no such occurrence
\* nothing is discarded.
C8_KeepsFromLastMarker ==
    Cleaned =>
        LET m == MarkerPositions(c_text)
            keep == IF m = {} THEN 0 ELSE Max(m)
        IN  /\ c_index = keep
            /\ c_out = ExtraSpaceSub(Unidecode(From(c_text, keep)), 1)

\* C8 witness: a text with two markers past its first character was cleaned
C8_TwoMarkersCleaned ==
    /\ pc = "cleaned"
    /\ Cardinality(MarkerPositions(c_text)) >= 2
    /\ c_index = Max(MarkerPositions(c_text))
    /\ c_index > Min(MarkerPositions(c_text))

\* C8 as stated: the text kept starts at the FIRST occurrence of the marker
\* that is not at the very first character.
C8_KeepsFromFirstMarker ==
    Cleaned =>
        LET m == MarkerPositions(c_text)
            keep == IF m = {} THEN 0 ELSE Min(m)
        IN  /\ c_index = keep
            /\ c_out = ExtraSpaceSub(Unidecode(From(c_text, keep)), 1)

\* A text is past its header when no marker is left to skip to, before or
\* after transliteration
PastHeader(s) == MarkerPositions(s) = {} /\ MarkerPositions(Unidecode(s)) = {}

\* C9 as stated: for a text past its header, cleaning what cleanup_text
\* returned returns the same text; the hyphenation repair finds nothing left
\* to rewrite and no further prefix is discarded.
C9_CleanupIdempotent ==
    (pc = "recleaned" /\ PastHeader(c_text)) =>
        /\ c_out2 = c_out
        /\ ExtraSpaceSub(c_out, 1) = c_out
        /\ SearchLoop(c_out, 0) = 0

(***************************************************************************)
(* QA_RE                                                                   *)
(*                                                                         *)
(* The five free-text groups are numbered 1 (Question), 2 (ChoiceA),       *)
(* 3 (ChoiceB), 4 (ChoiceC), 5 (ChoiceD).  The operators below follow the  *)
(* backtracking order of the regular expression: every lazy quantifier     *)
(* tries the shorter alternative first.  A successful match is the         *)
(* sequence of the <<start, end>> spans (end exclusive) of the groups      *)
(* matched from there on, followed by <<end, end>> for the end of the      *)
(* whole match; <<>> is no match.                                          *)
(***************************************************************************)
AnswerLetters == {"A", "B", "C", "D"}

\* the letter of the 'X\.' that follows group g
MarkerAfter(g) == CASE g = 1 -> "A" [] g = 2 -> "B" [] g = 3 -> "C" [] g = 4 -> "D"

\* '~+': the position after the run of tildes that starts at q
RECURSIVE SkipTildes(_, _)
SkipTildes(t, q) == IF q <= Len(t) /\ t[q] = "~" THEN SkipTildes(t, q + 1) ELSE q

RECURSIVE GroupFrom(_, _, _, _)
RECURSIVE GapFrom(_, _, _)
RECURSIVE AfterGap(_, _, _)
RECURSIVE SpacesFrom(_, _, _)

\* '(?P<g>[^~]+?)' started at p and tried with its end at e, then the rest
GroupFrom(t, g, p, e) ==
    IF e > Len(t) + 1 \/ t[e - 1] = "~" THEN <<>>
    ELSE LET rest == GapFrom(t, g, e)
         IN  IF rest # <<>> THEN <<<<p, e>>>> \o rest
             ELSE GroupFrom(t, g, p, e + 1)

\* '\s*?' after group g, tried at q, then the rest
GapFrom(t, g, q) ==
    LET rest == AfterGap(t, g, q)
    IN  IF rest # <<>> THEN rest
        ELSE IF q <= Len(t) /\ t[q] \in Whitespace THEN GapFrom(t, g, q + 1)
        ELSE <<>>

\* what follows the gap after group g: 'A\.' ... 'D\.' and the next group,
\* or '~+' after ChoiceD
AfterGap(t, g, q) ==
    IF g = 5
    THEN IF q <= Len(t) /\ t[q] = "~"
         THEN <<<<SkipTildes(t, q), SkipTildes(t, q)>>>>
         ELSE <<>>
    ELSE IF q + 1 <= Len(t) /\ t[q] = MarkerAfter(g) /\ t[q + 1] = "."
         THEN SpacesFrom(t, g + 1, q + 2)
         ELSE <<>>

\* ' *?' before group g, tried at q, then the group
SpacesFrom(t, g, q) ==
    LET rest == GroupFrom(t, g, q, q + 1)
    IN  IF rest # <<>> THEN rest
        ELSE IF q <= Len(t) /\ t[q] = " " THEN SpacesFrom(t, g, q + 1)
        ELSE <<>>

\* '\s*?' before Question, tried at q, then Question
RECURSIVE QuestionFrom(_, _)
QuestionFrom(t, q) ==
    LET rest == GroupFrom(t, 1, q, q + 1)
    IN  IF rest # <<>> THEN rest
        ELSE IF q <= Len(t) /\ t[q] \in Whitespace THEN QuestionFrom(t, q + 1)
        ELSE <<>>

\* first position >= q that holds "]", or Len(t) + 1
RECURSIVE FindBracket(_, _)
FindBracket(t, q) ==
    IF q <= Len(t) /\ t[q] # "]" THEN FindBracket(t, q + 1) ELSE q

\* '(?P<Regulation>\s*?\[[^]]+?\])' at k: the position after it, or 0
RegulationEnd(t, k) ==
    LET b == SkipSpace(t, k)
        c == FindBracket(t, b + 1)
    IN  IF b <= Len(t) /\ t[b] = "[" /\ c <= Len(t) /\ c > b + 1
        THEN c + 1 ELSE 0

NoMatch == [ok |-> FALSE, start |-> 0, end |-> 0, QuestionNumber |-> <<>>,
            Answer |-> "", Regulation |-> <<>>, Question |-> <<>>,
            ChoiceA |-> <<>>, ChoiceB |-> <<>>, ChoiceC |-> <<>>,
            ChoiceD |-> <<>>]

\* QA_RE.match(t, i - 1): the match object of a match that starts at the
\* 1-based position i; a group that did not take part is <<>>
MatchAt(t, i) ==
    IF ~ /\ i + 4 <= Len(t)
         /\ t[i] \in {"T", "G", "E"}
         /\ t[i + 1] \in Digits
         /\ t[i + 2] \in UpperLetters
         /\ t[i + 3] \in Digits
         /\ t[i + 4] \in Digits
    THEN NoMatch
    ELSE LET j == IF i + 5 <= Len(t) /\ t[i + 5] = " " THEN i + 6 ELSE i + 5
         IN  IF ~ /\ j + 2 <= Len(t)
                  /\ t[j] = "("
                  /\ t[j + 1] \in AnswerLetters
                  /\ t[j + 2] = ")"
             THEN NoMatch
             ELSE LET k == j + 3
                      r == RegulationEnd(t, k)
                      withReg == IF r = 0 THEN <<>> ELSE QuestionFrom(t, r)
                      withoutReg == IF withReg # <<>> THEN <<>> ELSE QuestionFrom(t, k)
                      spans == IF withReg # <<>> THEN withReg ELSE withoutReg
                      Group(g) == SubSeq(t, spans[g][1], spans[g][2] - 1)
                 IN  IF spans = <<>> THEN NoMatch
                     ELSE [ok |-> TRUE, start |-> i, end |-> spans[6][1],
                           QuestionNumber |-> SubSeq(t, i, i + 4),
                           Answer |-> t[j + 1],
                           Regulation |-> IF withReg # <<>> THEN SubSeq(t, k, r - 1)
                                          ELSE <<>>,
                           Question |-> Group(1),
                           ChoiceA |-> Group(2), ChoiceB |-> Group(3),
                           ChoiceC |-> Group(4), ChoiceD |-> Group(5)]

\* QA_RE.finditer(t) from the 1-based position i on
RECURSIVE FindIter(_, _)
FindIter(t, i) ==
    IF i > Len(t) THEN <<>>
    ELSE LET m == MatchAt(t, i)
         IN  IF m.ok THEN <<m>> \o FindIter(t, m.end) ELSE FindIter(t, i + 1)

(***************************************************************************)
(* Question                                                                *)
(***************************************************************************)
\* first position >= i of s that holds whitespace, or Len(s) + 1
RECURSIVE WordEnd(_, _)
WordEnd(s, i) ==
    IF i <= Len(s) /\ s[i] \notin Whitespace THEN WordEnd(s, i + 1) ELSE i

\* ' '.join(s.split()) from position i on; first: no word was joined yet
RECURSIVE JoinSplitFrom(_, _, _)
JoinSplitFrom(s, i, first) ==
    LET j == SkipSpace(s, i)
    IN  IF j > Len(s) THEN <<>>
        ELSE LET e == WordEnd(s, j)
             IN  (IF first THEN <<>> ELSE <<" ">>) \o SubSeq(s, j, e - 1)
                     \o JoinSplitFrom(s, e, FALSE)

JoinSplit(s) == JoinSplitFrom(s, 1, TRUE)

\* s.isspace()
IsSpace(s) == s # <<>> /\ \A i \in 1..Len(s) : s[i] \in Whitespace

\* Question.__init__ up to its assertions
Question(match_obj) ==
    [question_number |-> match_obj.QuestionNumber,
     answer |-> match_obj.Answer,
     regulation |-> IF match_obj.Regulation = <<>> \/ IsSpace(match_obj.Regulation)
                    THEN <<>> ELSE match_obj.Regulation,
     question |-> JoinSplit(match_obj.Question),
     choices |-> [l \in AnswerLetters |->
                    CASE l = "A" -> JoinSplit(match_obj.ChoiceA)
                      [] l = "B" -> JoinSplit(match_obj.ChoiceB)
                      [] l = "C" -> JoinSplit(match_obj.ChoiceC)
                      [] l = "D" -> JoinSplit(match_obj.ChoiceD)]]

\* the assertions of Question.__init__ hold
QuestionAsserts(q) ==
    /\ Len(q.question_number) > 0
    /\ q.answer # ""
    /\ q.question # <<>>
    /\ \A l \in AnswerLetters : q.choices[l] # <<>>

\* Question.__str__
Str(q) ==
    q.question_number \o <<" ", "(", q.answer, ")">> \o q.regulation \o <<"\n">>
        \o q.question \o <<"\n", "A", ".", " ">> \o q.choices["A"]
        \o <<"\n", "B", ".", " ">> \o q.choices["B"]
        \o <<"\n", "C", ".", " ">> \o q.choices["C"]
        \o <<"\n", "D", ".", " ">> \o q.choices["D"]
        \o <<"\n", "~", "~">>

\* Question.__eq__
QuestionEq(a, b) == Str(a) = Str(b)

(***************************************************************************)
(* parse_questions                                                         *)
(***************************************************************************)
\* re.compile(re_str).match(text) for a pattern of literal characters and
\* '.': the pattern has to match at the start of text, not all of it
PatternMatch(re_str, text) ==
    /\ Len(re_str) <= Len(text)
    /\ \A i \in 1..Len(re_str) :
           \/ re_str[i] = "." /\ text[i] # "\n"
           \/ re_str[i] # "." /\ re_str[i] = text[i]

text_matches_any_re(text, regex_list) ==
    \E i \in 1..Len(regex_list) : PatternMatch(regex_list[i], text)

\* key in questions, for the dict kept as the sequence of its values
KeyIn(key, qs) == \E i \in 1..Len(qs) : qs[i].question_number = key

\* questions[key]
Lookup(qs, key) == qs[CHOOSE i \in 1..Len(qs) : qs[i].question_number = key]

\* An assignment that moves the key to the end
DictSetLast(qs, key, q) ==
    SelectSeq(qs, LAMBDA x : x.question_number # key) \o <<q>>

\* questions[key] = q: a key already present keeps its place
DictSet(qs, key, q) ==
    IF KeyIn(key, qs)
    THEN [i \in 1..Len(qs) |-> IF qs[i].question_number = key THEN q ELSE qs[i]]
    ELSE Append(qs, q)

\* the filter of parse_questions says to skip key
Filtered(key, inc, exc) ==
    IF Truthy(inc) THEN ~text_matches_any_re(key, inc.list)
    ELSE IF Truthy(exc) THEN text_matches_any_re(key, exc.list)
    ELSE FALSE

Raised(error, key) == [questions |-> <<>>, error |-> error, key |-> key]

\* the for loop of parse_questions at the k-th match of ms
RECURSIVE ParseLoop(_, _, _, _, _)
ParseLoop(ms, k, inc, exc, qs) ==
    IF k > Len(ms) THEN [questions |-> qs, error |-> "", key |-> <<>>]
    ELSE LET key == ms[k].QuestionNumber
             q == Question(ms[k])
         IN  IF Filtered(key, inc, exc) THEN ParseLoop(ms, k + 1, inc, exc, qs)
             ELSE IF ~QuestionAsserts(q) THEN Raised("AssertionError", key)
             ELSE IF KeyIn(key, qs) /\ ~QuestionEq(q, Lookup(qs, key))
                  THEN Raised("TwoQuestionsWithSameNumber", key)
             ELSE ParseLoop(ms, k + 1, inc, exc, DictSet(qs, key, q))

parse_questions(t, inc, exc) == ParseLoop(FindIter(t, 1), 1, inc, exc, <<>>)

\* Bound: the texts of the extraction runs are at most MaxBlocks blocks long
MaxBlocks == 3

ParseBlocks ==
    {
      \* 'T1A01(A)qA.aB.bC.cD.d~'
      <<"T", "1", "A", "0", "1", "(", "A", ")", "q", "A", ".", "a", "B", ".", "b", "C", ".", "c", "D", ".", "d", "~">>,
      \* 'T1A01 (A) q\nA. a\nB.b C.c D.d ~~': the same record as the first block, laid out differently
      <<"T", "1", "A", "0", "1", " ", "(", "A", ")", " ", "q", "\n", "A", ".", " ", "a", "\n", "B", ".", "b", " ", "C", ".", "c", " ", "D", ".", "d", " ", "~", "~">>,
      \* 'T1A01(B)qA.aB.bC.cD.d~': the answer differs
      <<"T", "1", "A", "0", "1", "(", "B", ")", "q", "A", ".", "a", "B", ".", "b", "C", ".", "c", "D", ".", "d", "~">>,
      \* 'T1A01(A)[r]qA.aB.bC.cD.d~': the regulation differs
      <<"T", "1", "A", "0", "1", "(", "A", ")", "[", "r", "]", "q", "A", ".", "a", "B", ".", "b", "C", ".", "c", "D", ".", "d", "~">>,
      \* 'T1A02(C)qA.aB.bC.cD.x~'
      <<"T", "1", "A", "0", "2", "(", "C", ")", "q", "A", ".", "a", "B", ".", "b", "C", ".", "c", "D", ".", "x", "~">>,
      \* 'G1A01(D)q xA.aB.bC.cD.d~'
      <<"G", "1", "A", "0", "1", "(", "D", ")", "q", " ", "x", "A", ".", "a", "B", ".", "b", "C", ".", "c", "D", ".", "d", "~">>,
      \* 'E1A01(A)A.xA.aB.bC.cD.d~': the question is 'A.x'
      <<"E", "1", "A", "0", "1", "(", "A", ")", "A", ".", "x", "A", ".", "a", "B", ".", "b", "C", ".", "c", "D", ".", "d", "~">>,
      \* 'E1A02(A) A.xA.aB.bC.cD.d~': the Question group is one space
      <<"E", "1", "A", "0", "2", "(", "A", ")", " ", "A", ".", "x", "A", ".", "a", "B", ".", "b", "C", ".", "c", "D", ".", "d", "~">> }

RECURSIVE BlockTexts(_)
BlockTexts(n) ==
    IF n = 0 THEN {<<>>}
    ELSE LET shorter == BlockTexts(n - 1)
         IN  shorter \cup {b \o t : b \in ParseBlocks, t \in shorter}

\* <<include, exclude>> as main passes them (argparse leaves None or a list
\* of one or more patterns) and as other callers may
FilterArgs ==
    { <<NoneList, NoneList>>,
      <<SomeList(<<>>), NoneList>>,
      <<NoneList, SomeList(<<>>)>>,
      <<SomeList(<<<<"T", "1", "A", "0", "1">>>>), NoneList>>,
      <<SomeList(<<<<"G">>, <<"T", ".", "A", "0", "2">>>>), NoneList>>,
      <<SomeList(<<<<"1">>>>), NoneList>>,
      <<NoneList, SomeList(<<<<"T", "1", "A", "0", "1">>>>)>>,
      <<NoneList, SomeList(<<<<"E">>, <<"T", "1">>>>)>>,
      <<SomeList(<<<<"T">>>>), SomeList(<<<<"T", "1", "A", "0", "1">>>>)>>,
      <<SomeList(<<>>), SomeList(<<<<"T">>>>)>> }

InitParse ==
    /\ pc = "parse"
    /\ p_text \in BlockTexts(MaxBlocks)
    /\ \E f \in FilterArgs : include_strs = f[1] /\ exclude_strs = f[2]
    /\ p_result = NoResult /\ rt_question = NoQuestion /\ rt_result = NoResult
    /\ IdleClean /\ IdleGen /\ IdleQuiz

\* main: questions = parse_questions(text, args.include, args.exclude)
ParseQuestions ==
    /\ pc = "parse"
    /\ p_result' = parse_questions(p_text, include_strs, exclude_strs)
    /\ pc' = "parsed"
    /\ UNCHANGED <<p_text, include_strs, exclude_strs, rt_question, rt_result,
                   cleanVars, genVars, quizVars>>

\* main: print(questions[question_number]) for one of the questions; an
\* exception of parse_questions ends main before
WriteQuestion ==
    /\ pc = "parsed"
    /\ p_result.error = ""
    /\ \E i \in 1..Len(p_result.questions) :
           rt_question' = p_result.questions[i]
    /\ pc' = "written"
    /\ UNCHANGED <<p_text, include_strs, exclude_strs, p_result, rt_result,
                   cleanVars, genVars, quizVars>>

\* parse_questions on what was written, without filters
ReadBack ==
    /\ pc = "written"
    /\ rt_result' = parse_questions(Str(rt_question), NoneList, NoneList)
    /\ pc' = "read"
    /\ UNCHANGED <<p_text, include_strs, exclude_strs, p_result, rt_question,
                   cleanVars, genVars, quizVars>>

NextParse == ParseQuestions \/ WriteQuestion \/ ReadBack

SpecParse == InitParse /\ [][NextParse]_vars

\* The extraction runs without filters
InitRoundTrip ==
    /\ pc = "parse"
    /\ p_text \in BlockTexts(MaxBlocks)
    /\ include_strs = NoneList /\ exclude_strs = NoneList
    /\ p_result = NoResult /\ rt_question = NoQuestion /\ rt_result = NoResult
    /\ IdleClean /\ IdleGen /\ IdleQuiz

SpecRoundTrip == InitRoundTrip /\ [][NextParse]_vars

(***************************************************************************)
(* Claims about parse_questions                                            *)
(***************************************************************************)
Parsed == pc \in {"parsed", "written", "read"}

\* the matches of p_text, in document order
Matches == FindIter(p_text, 1)

\* the records of the matches that pass the filter, in document order
KeptRecords ==
    LET kept == SelectSeq(Matches, LAMBDA m :
                    ~Filtered(m.QuestionNumber, include_strs, exclude_strs))
    IN  [k \in 1..Len(kept) |-> Question(kept[k])]

\* two records differ in a field
Differ(a, b) ==
    \/ a.answer # b.answer
    \/ a.regulation # b.regulation
    \/ a.question # b.question
    \/ \E l \in AnswerLetters : a.choices[l] # b.choices[l]

\* the k-th record has the number of an earlier one and differs from it
Conflicts(recs, k) ==
    \E i \in 1..(k - 1) :
        /\ recs[i].question_number = recs[k].question_number
        /\ Differ(recs[i], recs[k])

\* the first index of recs that satisfies P, or Len(recs) + 1
FirstIndex(recs, P(_, _)) ==
    Min({k \in 1..Len(recs) : P(recs, k)} \cup {Len(recs) + 1})

Malformed(recs, k) == ~QuestionAsserts(recs[k])

\* the records whose number no earlier record has
FirstOccurrences(recs) ==
    LET keep == {k \in 1..Len(recs) :
                    \A i \in 1..(k - 1) :
                        recs[i].question_number # recs[k].question_number}
        RECURSIVE Pick(_)
        Pick(k) == IF k > Len(recs) THEN <<>>
                   ELSE (IF k \in keep THEN <<recs[k]>> ELSE <<>>) \o Pick(k + 1)
    IN  Pick(1)

\* C5: scanning the matches in document order, the first match whose id is
\* already in the result with a record that differs in a field makes
\* extraction fail with TwoQuestionsWithSameNumber carrying that id, and then
\* nothing is written; with no such match (and no record refused by the
\* assertions of Question) there is no error and the result holds one entry
\* per id, at the place of the id's first occurrence.
C5_DuplicateIds ==
    Parsed =>
        LET recs == KeptRecords
            c == FirstIndex(recs, Conflicts)
            a == FirstIndex(recs, Malformed)
        IN  /\ (c <= Len(recs) /\ c < a) =>
                   /\ p_result = Raised("TwoQuestionsWithSameNumber",
                                        recs[c].question_number)
                   /\ pc = "parsed" /\ rt_question = NoQuestion
            /\ (c > Len(recs) /\ a > Len(recs)) =>
                   /\ p_result.error = ""
                   /\ p_result.questions = FirstOccurrences(recs)

\* C5 witness: three matches of one id were scanned, the second with the
\* record of the first, the third with a different one, and the error names
\* the id
C5_DuplicateThenConflict ==
    /\ pc = "parsed"
    /\ Len(KeptRecords) = 3
    /\ KeptRecords[2] = KeptRecords[1]
    /\ KeptRecords[3].question_number = KeptRecords[1].question_number
    /\ Differ(KeptRecords[3], KeptRecords[1])
    /\ p_result.error = "TwoQuestionsWithSameNumber"
    /\ p_result.key = KeptRecords[1].question_number

\* the ids of the matches of p_text
MatchedIds == {Matches[k].QuestionNumber : k \in 1..Len(Matches)}

ResultIds == {p_result.questions[k].question_number :
                  k \in 1..Len(p_result.questions)}

C10_RoundTrip ==
    pc = "read" =>
        /\ rt_result.error = ""
        /\ Len(rt_result.questions) = 1
        /\ rt_result.questions[1] = rt_question

(***************************************************************************)
(* Question.generate_question                                              *)
(***************************************************************************)
\* s[a..] starts with the characters of w
HasAt(s, a, w) == a + Len(w) - 1 <= Len(s) /\ SubSeq(s, a, a + Len(w) - 1) = w

\* all_choices_correct_re = '^All .* correct$' matches s: '.' is any
\* character but a newline, '$' the end or the place before a last newline
AllChoicesCorrect(s) ==
    \E end \in {Len(s)} \cup (IF s # <<>> /\ s[Len(s)] = "\n" THEN {Len(s) - 1} ELSE {}) :
        /\ end >= 12
        /\ HasAt(s, 1, <<"A", "l", "l", " ">>)
        /\ SubSeq(s, end - 7, end) = <<" ", "c", "o", "r", "r", "e", "c", "t">>
        /\ \A i \in 5..(end - 8) : s[i] # "\n"

\* random.sample(letters, len(letters)): every order of the letters
Samples(letters) ==
    {p \in [1..Len(letters) -> {letters[i] : i \in 1..Len(letters)}] :
        \A i, j \in 1..Len(letters) : i # j => p[i] # p[j]}

\* the choice_lookup dicts generate_question may build
ChoiceLookups(q, shuffle_abcd) ==
    IF ~shuffle_abcd
    THEN {[o \in AnswerLetters |-> o]}
    ELSE IF AllChoicesCorrect(q.choices["D"])
    THEN {[A |-> sc[1], B |-> sc[2], C |-> sc[3], D |-> "D"] :
              sc \in Samples(<<"A", "B", "C">>)}
    ELSE {[A |-> sc[1], B |-> sc[2], C |-> sc[3], D |-> sc[4]] :
              sc \in Samples(<<"A", "B", "C", "D">>)}

\* TextWrapper's default width
WrapWidth == 70

\* TextWrapper.wrap joined by '\n', from position i of s on, for a text of
\* words no longer than the width, without hyphens, a single space apart (as
\* ' '.join(s.split()) leaves them); line: the line under construction,
\* started: it holds a word
RECURSIVE WrapFrom(_, _, _, _, _)
WrapFrom(s, i, line, started, subsequent_indent) ==
    LET j == SkipSpace(s, i)
    IN  IF j > Len(s) THEN line
        ELSE LET e == WordEnd(s, j)
                 word == SubSeq(s, j, e - 1)
             IN  IF ~started
                 THEN WrapFrom(s, e, line \o word, TRUE, subsequent_indent)
                 ELSE IF Len(line) + 1 + Len(word) <= WrapWidth
                 THEN WrapFrom(s, e, line \o <<" ">> \o word, TRUE, subsequent_indent)
                 ELSE line \o <<"\n">>
                          \o WrapFrom(s, j, subsequent_indent, FALSE, subsequent_indent)

\* '\n'.join(q_wrapper.wrap(s)); a text without a word has no line
QWrap(s) ==
    IF SkipSpace(s, 1) > Len(s) THEN <<>>
    ELSE WrapFrom(s, 1, <<>>, FALSE, <<>>)

\* '\n'.join(a_wrapper.wrap(s)): three spaces before the first line, six
\* before the others
AWrap(s) ==
    IF SkipSpace(s, 1) > Len(s) THEN <<>>
    ELSE WrapFrom(s, 1, <<" ", " ", " ">>, FALSE, <<" ", " ", " ", " ", " ", " ">>)

\* the letter returned without the lookup
CorrectLetterUnmapped(choice_lookup, answer) == answer

\* choice_lookup[self.answer]
CorrectLetter(choice_lookup, answer) == choice_lookup[answer]

\* the loop that fills the choices dict, from the original choice os[k] on
RECURSIVE FillChoices(_, _, _, _, _)
FillChoices(q, choice_lookup, os, k, choices) ==
    IF k > Len(os) THEN choices
    ELSE LET raw_text == <<choice_lookup[os[k]], ".", " ">> \o q.choices[os[k]]
         IN  FillChoices(q, choice_lookup, os, k + 1,
                 [choices EXCEPT ![choice_lookup[os[k]]] = AWrap(raw_text)])

\* generate_question with the choice_lookup it drew
generate_question(q, choice_lookup) ==
    LET choices == FillChoices(q, choice_lookup, <<"A", "B", "C", "D">>, 1, NoChoices)
    IN  [correct |-> CorrectLetter(choice_lookup, q.answer),
         text |-> q.question_number \o <<"\n">> \o QWrap(q.question) \o <<"\n">>
                      \o choices["A"] \o <<"\n">> \o choices["B"] \o <<"\n">>
                      \o choices["C"] \o <<"\n">> \o choices["D"] \o <<"\n">>,
         choices |-> choices]

AllXCorrect == <<"A", "l", "l", " ", "x", " ", "c", "o", "r", "r", "e", "c", "t">>
AllCorrect == <<"A", "l", "l", " ", "c", "o", "r", "r", "e", "c", "t">>

\* n times the word "words", a space apart
RECURSIVE ManyWords(_)
ManyWords(n) ==
    IF n = 0 THEN <<>>
    ELSE (IF n = 1 THEN <<>> ELSE ManyWords(n - 1) \o <<" ">>)
             \o <<"w", "o", "r", "d", "s">>

\* The choices of the questions presented; 13 words do not fit on a line
GenChoices ==
    { [A |-> <<"a">>, B |-> <<"b">>, C |-> <<"c">>, D |-> <<"d">>],
      [A |-> ManyWords(13), B |-> <<"b">>, C |-> <<"c">>, D |-> AllXCorrect],
      [A |-> <<"a">>, B |-> <<"a">>, C |-> <<"c">>, D |-> AllCorrect],
      [A |-> AllXCorrect, B |-> <<"b">>, C |-> ManyWords(25), D |-> <<"d", " ", "e">>] }

InitShuffle ==
    /\ pc = "generate"
    /\ \E a \in AnswerLetters, cs \in GenChoices :
           g_question = [question_number |-> <<"T", "1", "A", "0", "1">>,
                         answer |-> a, regulation |-> <<>>,
                         question |-> <<"q">>, choices |-> cs]
    /\ g_shuffle \in BOOLEAN
    /\ g_result = NoGenerated
    /\ g_before = g_question
    /\ IdleClean /\ IdleParse /\ IdleQuiz

\* question.generate_question(shuffle_abcd); the method assigns to no
\* attribute of self
GenerateQuestion ==
    /\ pc = "generate"
    /\ \E choice_lookup \in ChoiceLookups(g_question, g_shuffle) :
           g_result' = generate_question(g_question, choice_lookup)
    /\ pc' = "generated"
    /\ UNCHANGED <<g_question, g_shuffle, g_before, cleanVars, parseVars, quizVars>>

NextShuffle == GenerateQuestion

SpecShuffle == InitShuffle /\ [][NextShuffle]_vars

(***************************************************************************)
(* Claims about generate_question                                          *)
(***************************************************************************)
\* the choice text displayed at position l of a choices dict: the words of
\* its lines a space apart, without the letter, the dot and the space
ShownAt(choices, l) == From(JoinSplit(choices[l]), 3)

LetterBijections ==
    {f \in [AnswerLetters -> AnswerLetters] :
        \A x, y \in AnswerLetters : x # y => f[x] # f[y]}

\* "All <anything> correct"
IsAllCorrectText(s) ==
    /\ Len(s) >= 12
    /\ SubSeq(s, 1, 4) = <<"A", "l", "l", " ">>
    /\ SubSeq(s, Len(s) - 7, Len(s)) = <<" ", "c", "o", "r", "r", "e", "c", "t">>

\* C7: whatever the answer letter and the shuffle drawn, every position A-D
\* displays its own letter and one of the original choice texts, the four
\* positions display a permutation of the four texts under which the
\* returned letter is the position of the originally correct choice, the
\* record is as it was; without shuffling each position shows its own
\* choice; with shuffling and a choice D "All <anything> correct" position D
\* shows choice D.
C7_ShuffleInvariant ==
    pc = "generated" =>
        LET q == g_before
            shownAt(l) == ShownAt(g_result.choices, l)
        IN  /\ \A l \in AnswerLetters :
                   HasAt(g_result.choices[l], 1, <<" ", " ", " ", l, ".", " ">>)
            /\ \E f \in LetterBijections :
                   /\ \A o \in AnswerLetters : shownAt(f[o]) = q.choices[o]
                   /\ g_result.correct = f[q.answer]
                   /\ (g_shuffle /\ IsAllCorrectText(q.choices["D"])) => f["D"] = "D"
                   /\ ~g_shuffle => \A o \in AnswerLetters : f[o] = o
            /\ shownAt(g_result.correct) = q.choices[q.answer]
            /\ g_question = q

\* C7 witness: a question whose choice D is "All x correct" and whose answer
\* is A was shuffled, and the correct choice is displayed at C on two lines
C7_ShuffledAwayFromA ==
    /\ pc = "generated"
    /\ g_shuffle
    /\ IsAllCorrectText(g_before.choices["D"])
    /\ g_before.answer = "A"
    /\ g_result.correct = "C"
    /\ \E i \in 1..Len(g_result.choices["C"]) : g_result.choices["C"][i] = "\n"
    /\ ShownAt(g_result.choices, "C") = g_before.choices["A"]
    /\ ShownAt(g_result.choices, "D") = g_before.choices["D"]

(***************************************************************************)
(* ask_questions and main                                                  *)
(***************************************************************************)
\* the smallest screen ask_questions accepts
MinRows == 24
MinCols == 80

\* Bound: main starts the quiz with at most MaxQuestions questions
MaxQuestions == 2

\* Either dimension has to be too small only together with the other
WinTooSmallBoth(r, c) == r < MinRows /\ c < MinCols

\* rows < 24 or cols < 80
WinTooSmall(r, c) == r < MinRows \/ c < MinCols

DigitChars == <<"1", "2", "3", "4", "5", "6", "7", "8", "9">>

\* The k-th question of the pool the quiz runs on
QuizQuestion(k) ==
    [question_number |-> <<"T", "1", "A", "0", DigitChars[k]>>,
     answer |-> <<"A", "B", "C", "D">>[((k - 1) % 4) + 1],
     regulation |-> IF k % 3 = 0 THEN <<"[", "r", "]">> ELSE <<>>,
     question |-> <<"q", DigitChars[k]>>,
     choices |-> [A |-> <<"a">>, B |-> <<"b">>, C |-> <<"c">>,
                  D |-> IF k % 2 = 0 THEN AllXCorrect ELSE <<"d">>]]

\* what getkey may return
Keys == {"a", "b", "C", "D", "s", "S", "q", "Q", "x", "KEY_UP"}

\* str.upper
ToUpper(key) ==
    CASE key = "a" -> "A" [] key = "b" -> "B" [] key = "c" -> "C"
      [] key = "d" -> "D" [] key = "s" -> "S" [] key = "q" -> "Q"
      [] key = "x" -> "X" [] OTHER -> key

\* their_answer in 'ABCDSQ', for what getkey returns: one character or the
\* name of a key
InABCDSQ(a) == a \in {"A", "B", "C", "D", "S", "Q"}

\* No key ends the session
IsQuitNever(a) == FALSE

\* their_answer == 'Q'
IsQuit(a) == a = "Q"

\* A skip that is not counted
TallySkipLost(a, correct, n) ==
    IF a = correct THEN [n EXCEPT !.correct = @ + 1]
    ELSE IF a = "S" THEN n
    ELSE [n EXCEPT !.incorrect = @ + 1]

\* the counters after the answer a to a question whose letter is correct
Tally(a, correct, n) ==
    IF a = correct THEN [n EXCEPT !.correct = @ + 1]
    ELSE IF a = "S" THEN [n EXCEPT !.skipped = @ + 1]
    ELSE [n EXCEPT !.incorrect = @ + 1]

\* A deletion of the first entry
DictDelFirst(qs, key) == Tail(qs)

\* del questions[key]
DictDel(qs, key) == SelectSeq(qs, LAMBDA x : x.question_number # key)

\* list(questions.keys())
DictKeys(qs) == [i \in 1..Len(qs) |-> qs[i].question_number]

TooSmallMessage == "The terminal window must be at least 80x24."

Init ==
    /\ pc = "main"
    /\ args_ask \in BOOLEAN /\ args_shuffle \in BOOLEAN /\ args_verbose \in BOOLEAN
    /\ rows \in {MinRows - 1, MinRows}
    /\ cols \in {MinCols - 1, MinCols, MinCols + 1}
    /\ \E n \in 0..MaxQuestions : questions = [k \in 1..n |-> QuizQuestion(k)]
    /\ q_numbers = <<>> /\ q_pos = 0
    /\ q_correct = 0 /\ q_incorrect = 0 /\ q_skipped = 0
    /\ correct_answer = "" /\ their_answer = ""
    /\ output_file = <<>> /\ stderr = <<>> /\ exit_status = -1
    /\ h_initial = questions /\ h_request = <<args_ask, args_shuffle>>
    /\ h_right = {} /\ h_resolved = {} /\ h_presented = 0
    /\ IdleClean /\ IdleParse /\ IdleGen

\* main: the shuffle flag turns the quiz on; without the quiz main goes on to
\* write the questions
MainAsk ==
    /\ pc = "main"
    /\ args_ask' = (args_ask \/ args_shuffle)
    /\ pc' = IF args_ask' THEN "ask_questions" ELSE "output"
    /\ UNCHANGED <<args_shuffle, args_verbose, rows, cols, questions,
                   q_numbers, q_pos, q_correct, q_incorrect, q_skipped,
                   correct_answer, their_answer, output_file, stderr,
                   exit_status, h_initial, h_request, h_right, h_resolved,
                   h_presented, cleanVars, parseVars, genVars>>

\* ask_questions raises WinTooSmallError; main prints the message and
\* returns 1
AskTooSmall ==
    /\ pc = "ask_questions"
    /\ WinTooSmall(rows, cols)
    /\ stderr' = Append(stderr, TooSmallMessage)
    /\ exit_status' = 1
    /\ pc' = "returned"
    /\ UNCHANGED <<args_ask, args_shuffle, args_verbose, rows, cols,
                   questions, q_numbers, q_pos, q_correct, q_incorrect,
                   q_skipped, correct_answer, their_answer, output_file,
                   h_initial, h_request, h_right, h_resolved, h_presented,
                   cleanVars, parseVars, genVars>>

\* ask_questions: the counters are zeroed and the order of the session drawn
AskStart ==
    /\ pc = "ask_questions"
    /\ ~WinTooSmall(rows, cols)
    /\ q_correct' = 0 /\ q_incorrect' = 0 /\ q_skipped' = 0
    /\ q_numbers' \in Samples(DictKeys(questions))
    /\ q_pos' = 1
    /\ pc' = "for"
    /\ UNCHANGED <<args_ask, args_shuffle, args_verbose, rows, cols,
                   questions, correct_answer, their_answer, output_file,
                   stderr, exit_status, h_initial, h_request, h_right,
                   h_resolved, h_presented, cleanVars, parseVars, genVars>>

\* the for loop takes the next number: the totals and the question are shown
PresentQuestion ==
    /\ pc = "for"
    /\ q_pos <= Len(q_numbers)
    /\ LET question == Lookup(questions, q_numbers[q_pos])
       IN  \E choice_lookup \in ChoiceLookups(question, args_shuffle) :
               correct_answer' = generate_question(question, choice_lookup).correct
    /\ h_presented' = h_presented + 1
    /\ pc' = "getkey"
    /\ UNCHANGED <<args_ask, args_shuffle, args_verbose, rows, cols,
                   questions, q_numbers, q_pos, q_correct, q_incorrect,
                   q_skipped, their_answer, output_file, stderr, exit_status,
                   h_initial, h_request, h_right, h_resolved, cleanVars,
                   parseVars, genVars>>

\* the for loop is exhausted: ask_questions returns
SessionEnd ==
    /\ pc = "for"
    /\ q_pos > Len(q_numbers)
    /\ pc' = "output"
    /\ UNCHANGED <<cleanVars, parseVars, genVars, quizVars>>

\* a key is read at the prompt of a question
GetKey ==
    /\ pc = "getkey"
    /\ \E key \in Keys :
        LET a == ToUpper(key)
            q_number == q_numbers[q_pos]
            n == Tally(a, correct_answer,
                       [correct |-> q_correct, incorrect |-> q_incorrect,
                        skipped |-> q_skipped])
        IN  /\ their_answer' = a
            /\ IF ~InABCDSQ(a)
               THEN \* the help is shown and the key asked for again
                    /\ pc' = "getkey"
                    /\ UNCHANGED <<questions, q_pos, q_correct, q_incorrect,
                                   q_skipped, h_right, h_resolved>>
               ELSE IF IsQuit(a)
               THEN /\ pc' = "output"
                    /\ UNCHANGED <<questions, q_pos, q_correct, q_incorrect,
                                   q_skipped, h_right, h_resolved>>
               ELSE /\ q_correct' = n.correct
                    /\ q_incorrect' = n.incorrect
                    /\ q_skipped' = n.skipped
                    /\ h_resolved' = h_resolved \cup {q_number}
                    /\ IF a = correct_answer
                       THEN /\ questions' = DictDel(questions, q_number)
                            /\ h_right' = h_right \cup {q_number}
                            /\ q_pos' = q_pos + 1
                            /\ pc' = "for"
                       ELSE /\ pc' = "continue"
                            /\ UNCHANGED <<questions, h_right, q_pos>>
    /\ UNCHANGED <<args_ask, args_shuffle, args_verbose, rows, cols,
                   q_numbers, correct_answer, output_file, stderr,
                   exit_status, h_initial, h_request, h_presented, cleanVars,
                   parseVars, genVars>>

\* a key is read at "Press a key to continue."
PressToContinue ==
    /\ pc = "continue"
    /\ \E key \in Keys : their_answer' = key
    /\ q_pos' = q_pos + 1
    /\ pc' = "for"
    /\ UNCHANGED <<args_ask, args_shuffle, args_verbose, rows, cols,
                   questions, q_numbers, q_correct, q_incorrect, q_skipped,
                   correct_answer, output_file, stderr, exit_status,
                   h_initial, h_request, h_right, h_resolved, h_presented,
                   cleanVars, parseVars, genVars>>

\* main: the count goes to stderr if asked for, every question left goes to
\* the output file, and main returns 0
MainOutput ==
    /\ pc = "output"
    /\ stderr' = IF args_verbose
                 THEN Append(stderr, "Outputting " \o ToString(Len(questions))
                                         \o " questions.")
                 ELSE stderr
    /\ output_file' = [i \in 1..Len(questions) |-> Str(questions[i])]
    /\ exit_status' = 0
    /\ pc' = "returned"
    /\ UNCHANGED <<args_ask, args_shuffle, args_verbose, rows, cols,
                   questions, q_numbers, q_pos, q_correct, q_incorrect,
                   q_skipped, correct_answer, their_answer, h_initial,
                   h_request, h_right, h_resolved, h_presented, cleanVars,
                   parseVars, genVars>>

Next ==
    \/ MainAsk
    \/ AskTooSmall
    \/ AskStart
    \/ PresentQuestion
    \/ SessionEnd
    \/ GetKey
    \/ PressToContinue
    \/ MainOutput

Spec == Init /\ [][Next]_vars

(***************************************************************************)
(* Claims about ask_questions and main                                     *)
(***************************************************************************)
\* ask_questions got past its entry check, and may have returned since
SessionRan ==
    /\ pc \in {"for", "getkey", "continue", "output", "returned"}
    /\ args_ask
    /\ exit_status # 1

\* the ids of the session's permutation not yet resolved by a correct, wrong
\* or skip key
Remaining == {q_numbers[i] : i \in 1..Len(q_numbers)} \ h_resolved

\* C1: in every state of a session, after any keys, correct + incorrect +
\* skipped + remaining = total, the number of questions at session start.
C1_Conservation ==
    SessionRan =>
        q_correct + q_incorrect + q_skipped + Cardinality(Remaining)
            = Len(h_initial)

\* C1 witness: of two questions one was answered wrongly, and at the prompt
\* of the other, which is still to be resolved, a key that is no answer was
\* read
C1_WrongThenInvalidKey ==
    /\ pc = "getkey"
    /\ Len(h_initial) = 2
    /\ q_correct = 0 /\ q_skipped = 0 /\ q_incorrect = 1
    /\ their_answer = "KEY_UP"
    /\ Cardinality(Remaining) = 1

\* C2: in every state, and when ask_questions has returned, the map is the
\* initial map without the ids answered with the letter of their correct
\* choice: those ids and no others are gone, the others keep their order and
\* their records.
C2_OnlyRightAnswersDeleted ==
    /\ questions = SelectSeq(h_initial, LAMBDA q : q.question_number \notin h_right)
    /\ \A i \in 1..Len(h_initial) :
           (h_initial[i].question_number \in h_resolved \ h_right)
               => KeyIn(h_initial[i].question_number, questions)

\* C2 witness: a shuffled session of two questions has returned with the
\* second one of the map answered correctly and the first one answered
\* wrongly or skipped
C2_SecondQuestionDeleted ==
    /\ pc = "output"
    /\ args_shuffle
    /\ Len(h_initial) = 2
    /\ h_right = {h_initial[2].question_number}
    /\ h_resolved = {h_initial[1].question_number, h_initial[2].question_number}
    /\ questions = <<h_initial[1]>>

\* C3: a key Q or q read at the prompt of a question ends the session at
\* once with the counters and the map as they were; after the session has
\* ended no question is presented and no key is read.
C3_QuitEndsSession ==
    [][ /\ (pc = "getkey" /\ their_answer' = "Q") =>
               /\ pc' = "output"
               /\ q_correct' = q_correct
               /\ q_incorrect' = q_incorrect
               /\ q_skipped' = q_skipped
               /\ questions' = questions
        /\ (pc \in {"output", "returned"}) =>
               /\ pc' \in {"output", "returned"}
               /\ h_presented' = h_presented
               /\ their_answer' = their_answer ]_vars

\* C3 witness: Q ended a session at its second question, the first one
\* answered correctly; the second one is still in the map
C3_QuitMidSession ==
    /\ pc = "output"
    /\ their_answer = "Q"
    /\ q_pos = 2 /\ Len(q_numbers) = 2
    /\ q_correct = 1 /\ q_incorrect = 0 /\ q_skipped = 0
    /\ KeyIn(q_numbers[q_pos], questions)
    /\ Len(questions) = 1

\* C4: when the quiz is asked for (by the ask flag or by the shuffle flag)
\* and the screen has fewer than 24 rows or fewer than 80 columns, the run
\* stops at the entry check: no question is presented, no key read, the map
\* and the output file are untouched, the message is printed once and main
\* returns 1; with 24 rows and 80 columns or more, and without the quiz, the
\* error is not raised.
C4_TooSmallFailsFast ==
    LET interactive == h_request[1] \/ h_request[2]
        small == rows < 24 \/ cols < 80
    IN  /\ (interactive /\ small /\ pc # "main") =>
               /\ pc \in {"ask_questions", "returned"}
               /\ h_presented = 0
               /\ their_answer = ""
               /\ questions = h_initial
               /\ output_file = <<>>
               /\ pc = "returned" => (exit_status = 1 /\ stderr = <<TooSmallMessage>>)
               /\ pc = "ask_questions" => (exit_status = -1 /\ stderr = <<>>)
        /\ (~interactive \/ ~small) =>
               /\ exit_status # 1
               /\ \A i \in 1..Len(stderr) : stderr[i] # TooSmallMessage

\* C4 witness: the quiz was implied by the shuffle flag alone, the screen had
\* 24 rows and 79 columns, and main returned 1
C4_ShuffleOnNarrowScreen ==
    /\ pc = "returned"
    /\ h_request = <<FALSE, TRUE>>
    /\ rows = 24 /\ cols = 79
    /\ Len(questions) = 2
    /\ exit_status = 1

====
